---- MODULE Spec2Model ----
(***************************************************************************)
(* Grid search engine of the path-finding visualizer                       *)
(* (src/src/app/algorithms.ts): bfs, dfs, dijkstra, aStar and              *)
(* greedyBestFirst over a rectangular grid of cells.                       *)
(*                                                                         *)
(* One behaviour is one invocation of one strategy on one grid.  The main  *)
(* loop of a strategy advances one iteration per step (the whole neighbor  *)
(* loop of the iteration included); the path reconstruction loop advances  *)
(* one parent lookup per step.                                             *)
(***************************************************************************)
EXTENDS Integers, Sequences, FiniteSets, TLC

\* ------------------------------------------------------------------ bounds
Rows == 3
Cols == 3
\* a visited trace or path is recorded element by element up to
\* Rows * Cols + TraceSlack elements; a longer one keeps growing in the
\* program, here it stops being extended
TraceSlack == 3
\* most wall cells of a grid
MaxWalls == 4
\* most wall cells of a grid in the specification with fairness
FairWalls == 2

\* ------------------------------------------------------------- data model
Infinity == 1000000

Strategies == {"bfs", "dfs", "dijkstra", "aStar", "greedyBestFirst"}

Cells == [row : 0 .. Rows - 1, col : 0 .. Cols - 1]

\* value of a Position | null variable that holds null (or undefined)
Null == [row |-> -1, col |-> -1]

Pos(r, c) == [row |-> r, col |-> c]

Abs(x) == IF x < 0 THEN -x ELSE x

\* `${row},${col}`
Key(p) == ToString(p.row) \o "," \o ToString(p.col)

\* key.split(',').map(Number)
ParseKey(k) == CHOOSE p \in Cells : Key(p) = k

\* `${row}-${col}` (greedyBestFirst)
DashKey(p) == ToString(p.row) \o "-" \o ToString(p.col)

\* the cells in the order of the nested row / col scan
RowMajor == [i \in 1 .. Rows * Cols |-> Pos((i - 1) \div Cols, (i - 1) % Cols)]

MaxTrace == Rows * Cols + TraceSlack

\* array.push that stops recording at MaxTrace elements
Push(s, x) == IF Len(s) < MaxTrace THEN Append(s, x) ELSE s

\* array.unshift that stops recording at MaxTrace elements
Unshift(s, x) == IF Len(s) < MaxTrace THEN <<x>> \o s ELSE s

\* F applied to the value of v, which is computed once
Bind(v, F(_)) == CHOOSE r \in {F(x) : x \in {v}} : TRUE

\* map.set(k, v)
MapSet(m, k, v) == (k :> v) @@ m

\* directions in the order right, left, down, up
directions_rightFirst == << [row |-> 0, col |-> 1], [row |-> 0, col |-> -1],
                            [row |-> 1, col |-> 0], [row |-> -1, col |-> 0] >>

\* the four moves in the order up, down, left, right
directions == << [row |-> -1, col |-> 0], [row |-> 1, col |-> 0],
                 [row |-> 0, col |-> -1], [row |-> 0, col |-> 1] >>

\* getNeighbors that tries up, down and left only
getNeighbors_noRight(g, position) ==
  LET cand == [i \in 1 .. 3 |-> Pos(position.row + directions[i].row,
                                    position.col + directions[i].col)]
  IN  SelectSeq(cand, LAMBDA n : /\ n.row >= 0
                                 /\ n.row < Rows
                                 /\ n.col >= 0
                                 /\ n.col < Cols
                                 /\ g[n] # "wall")

\* getNeighbors that keeps empty cells only
getNeighbors_emptyOnly(g, position) ==
  LET cand == [i \in 1 .. 4 |-> Pos(position.row + directions[i].row,
                                    position.col + directions[i].col)]
  IN  SelectSeq(cand, LAMBDA n : /\ n.row >= 0
                                 /\ n.row < Rows
                                 /\ n.col >= 0
                                 /\ n.col < Cols
                                 /\ g[n] = "empty")

\* getNeighbors without the test for wall cells
getNeighbors_ignoreWalls(g, position) ==
  LET cand == [i \in 1 .. 4 |-> Pos(position.row + directions[i].row,
                                    position.col + directions[i].col)]
  IN  SelectSeq(cand, LAMBDA n : /\ n.row >= 0
                                 /\ n.row < Rows
                                 /\ n.col >= 0
                                 /\ n.col < Cols)

getNeighbors(g, position) ==
  LET cand == [i \in 1 .. 4 |-> Pos(position.row + directions[i].row,
                                    position.col + directions[i].col)]
  IN  SelectSeq(cand, LAMBDA n : /\ n.row >= 0
                                 /\ n.row < Rows
                                 /\ n.col >= 0
                                 /\ n.col < Cols
                                 /\ g[n] # "wall")

RECURSIVE ScanStartEnd(_, _, _)
ScanStartEnd(g, i, acc) ==
  IF i > Rows * Cols THEN acc
  ELSE LET c == RowMajor[i]
       IN  ScanStartEnd(g, i + 1,
             IF g[c] = "start" THEN [acc EXCEPT !.start = c]
             ELSE IF g[c] = "end" THEN [acc EXCEPT !.end = c]
             ELSE acc)

RECURSIVE ScanStartEndFirst(_, _, _)
ScanStartEndFirst(g, i, acc) ==
  IF i > Rows * Cols THEN acc
  ELSE LET c == RowMajor[i]
       IN  ScanStartEndFirst(g, i + 1,
             IF g[c] = "start" /\ acc.start = Null
               THEN [acc EXCEPT !.start = c]
             ELSE IF g[c] = "end" /\ acc.end = Null
               THEN [acc EXCEPT !.end = c]
             ELSE acc)

\* findStartAndEnd that keeps the first start and the first end it meets
findStartAndEnd_first(g) ==
  ScanStartEndFirst(g, 1, [start |-> Null, end |-> Null])

\* findStartAndEnd that starts from the first cell instead of from null
findStartAndEnd_default(g) ==
  ScanStartEnd(g, 1, [start |-> RowMajor[1], end |-> RowMajor[Rows * Cols]])

findStartAndEnd(g) == ScanStartEnd(g, 1, [start |-> Null, end |-> Null])

\* the working state of an invocation before any of it is set up
Blank ==
  [pc |-> "call", start |-> Null, end |-> Null,
   queue |-> <<>>, stack |-> <<>>, openSet |-> <<>>,
   visited |-> {}, closedSet |-> {}, parent |-> <<>>, cameFrom |-> <<>>,
   distances |-> <<>>, gScore |-> <<>>, fScore |-> <<>>,
   visitedPositions |-> <<>>, path |-> <<>>, currentPos |-> Null,
   success |-> FALSE]

\* return { path: [], visited: [], success: false }
ReturnEmpty == [Blank EXCEPT !.pc = "done"]

\* ReturnFail that returns an empty visited trace
ReturnFail_empty(st) ==
  [st EXCEPT !.pc = "done", !.path = <<>>, !.success = FALSE,
             !.visitedPositions = <<>>]

\* return { path: [], visited: visitedPositions, success: false }
ReturnFail(st) == [st EXCEPT !.pc = "done", !.path = <<>>, !.success = FALSE]

\* "const path = []; let currentPos = end" of the reconstruction
BeginPath(st) == [st EXCEPT !.pc = "recon", !.path = <<>>, !.currentPos = st.end]

\* PathStep that appends (push) the positions instead of prepending them
PathStep_push(st) ==
  IF st.currentPos = Null
    THEN [st EXCEPT !.pc = "error"]
  ELSE IF st.currentPos.row # st.start.row \/ st.currentPos.col # st.start.col
    THEN LET parentKey == Key(st.currentPos)
         IN  [st EXCEPT !.path = Push(@, st.currentPos),
                        !.currentPos = IF parentKey \in DOMAIN st.parent
                                         THEN st.parent[parentKey] ELSE Null]
  ELSE [st EXCEPT !.path = Push(@, st.start), !.pc = "done", !.success = TRUE]

\* PathStep without the final path.unshift(start)
PathStep_noStart(st) ==
  IF st.currentPos = Null
    THEN [st EXCEPT !.pc = "error"]
  ELSE IF st.currentPos.row # st.start.row \/ st.currentPos.col # st.start.col
    THEN LET parentKey == Key(st.currentPos)
         IN  [st EXCEPT !.path = Unshift(@, st.currentPos),
                        !.currentPos = IF parentKey \in DOMAIN st.parent
                                         THEN st.parent[parentKey] ELSE Null]
  ELSE [st EXCEPT !.pc = "done", !.success = TRUE]

\* one test of the reconstruction loop of bfs, dfs, dijkstra and aStar and,
\* if the test holds, one round of the loop
PathStep(st) ==
  IF st.currentPos = Null
    THEN [st EXCEPT !.pc = "error"]          \* currentPos.row of undefined
  ELSE IF st.currentPos.row # st.start.row \/ st.currentPos.col # st.start.col
    THEN LET parentKey == Key(st.currentPos)
         IN  [st EXCEPT !.path = Unshift(@, st.currentPos),
                        !.currentPos = IF parentKey \in DOMAIN st.parent
                                         THEN st.parent[parentKey] ELSE Null]
  ELSE [st EXCEPT !.path = Unshift(@, st.start), !.pc = "done", !.success = TRUE]

\* ---------------------------------------------------------------- bfs
bfsSetup(g) ==
  LET se == findStartAndEnd(g)
  IN  IF se.start = Null \/ se.end = Null THEN ReturnEmpty
      ELSE [Blank EXCEPT !.pc = "loop", !.start = se.start, !.end = se.end,
                         !.queue = <<se.start>>,
                         !.visited = {Key(se.start)}]

\* bfsNeighbor without visited.add(key)
bfsNeighbor_noMark(st, neighbor, current) ==
  LET key == Key(neighbor)
  IN  IF key \notin st.visited
        THEN [st EXCEPT !.parent = MapSet(@, key, current),
                        !.queue = Append(@, neighbor)]
        ELSE st

\* bfsNeighbor that puts the neighbor at the front of the queue (unshift)
bfsNeighbor_front(st, neighbor, current) ==
  LET key == Key(neighbor)
  IN  IF key \notin st.visited
        THEN [st EXCEPT !.visited = @ \cup {key},
                        !.parent = MapSet(@, key, current),
                        !.queue = <<neighbor>> \o @]
        ELSE st

\* the body of "for (const neighbor of getNeighbors(grid, current))"
bfsNeighbor(st, neighbor, current) ==
  LET key == Key(neighbor)
  IN  IF key \notin st.visited
        THEN [st EXCEPT !.visited = @ \cup {key},
                        !.parent = MapSet(@, key, current),
                        !.queue = Append(@, neighbor)]
        ELSE st

RECURSIVE bfsNeighbors(_, _, _, _)
bfsNeighbors(ns, i, current, st) ==
  IF i > Len(ns) THEN st
  ELSE Bind(bfsNeighbor(st, ns[i], current),
            LAMBDA s2 : bfsNeighbors(ns, i + 1, current, s2))

\* bfsIter that takes the newest queue entry (pop) instead of the oldest
bfsIter_pop(g, st) ==
  IF Len(st.queue) = 0 THEN ReturnFail(st)
  ELSE LET current == st.queue[Len(st.queue)]
           s1 == [st EXCEPT !.queue = SubSeq(@, 1, Len(@) - 1),
                            !.visitedPositions = Push(@, current)]
       IN  IF current.row = st.end.row /\ current.col = st.end.col
             THEN BeginPath(s1)
             ELSE Bind(s1, LAMBDA s2 :
                    Bind(getNeighbors(g, current), LAMBDA ns :
                      bfsNeighbors(ns, 1, current, s2)))

\* bfsIter that tests for end before it records the position in visited
bfsIter_checkFirst(g, st) ==
  IF Len(st.queue) = 0 THEN ReturnFail(st)
  ELSE LET current == Head(st.queue)
           s0 == [st EXCEPT !.queue = Tail(@)]
           s1 == [s0 EXCEPT !.visitedPositions = Push(@, current)]
       IN  IF current.row = st.end.row /\ current.col = st.end.col
             THEN BeginPath(s0)
             ELSE Bind(s1, LAMBDA s2 :
                    Bind(getNeighbors(g, current), LAMBDA ns :
                      bfsNeighbors(ns, 1, current, s2)))

\* "while (queue.length > 0)": one test and, if it holds, one iteration
bfsIter(g, st) ==
  IF Len(st.queue) = 0 THEN ReturnFail(st)
  ELSE LET current == Head(st.queue)
           s1 == [st EXCEPT !.queue = Tail(@),
                            !.visitedPositions = Push(@, current)]
       IN  IF current.row = st.end.row /\ current.col = st.end.col
             THEN BeginPath(s1)
             ELSE Bind(s1, LAMBDA s2 :
                    Bind(getNeighbors(g, current), LAMBDA ns :
                      bfsNeighbors(ns, 1, current, s2)))

\* ---------------------------------------------------------------- dfs
dfsSetup(g) ==
  LET se == findStartAndEnd(g)
  IN  IF se.start = Null \/ se.end = Null THEN ReturnEmpty
      ELSE [Blank EXCEPT !.pc = "loop", !.start = se.start, !.end = se.end,
                         !.stack = <<se.start>>,
                         !.visited = {Key(se.start)}]

\* dfsNeighbor without visited.add(key)
dfsNeighbor_noMark(st, neighbor, current) ==
  LET key == Key(neighbor)
  IN  IF key \notin st.visited
        THEN [st EXCEPT !.parent = MapSet(@, key, current),
                        !.stack = Append(@, neighbor)]
        ELSE st

\* the body of "for (const neighbor of getNeighbors(grid, current))"
dfsNeighbor(st, neighbor, current) ==
  LET key == Key(neighbor)
  IN  IF key \notin st.visited
        THEN [st EXCEPT !.visited = @ \cup {key},
                        !.parent = MapSet(@, key, current),
                        !.stack = Append(@, neighbor)]
        ELSE st

RECURSIVE dfsNeighbors(_, _, _, _)
dfsNeighbors(ns, i, current, st) ==
  IF i > Len(ns) THEN st
  ELSE Bind(dfsNeighbor(st, ns[i], current),
            LAMBDA s2 : dfsNeighbors(ns, i + 1, current, s2))

\* dfsIter that takes the oldest stack entry (shift) instead of the newest
dfsIter_shift(g, st) ==
  IF Len(st.stack) = 0 THEN ReturnFail(st)
  ELSE LET current == Head(st.stack)
           s1 == [st EXCEPT !.stack = Tail(@),
                            !.visitedPositions = Push(@, current)]
       IN  IF current.row = st.end.row /\ current.col = st.end.col
             THEN BeginPath(s1)
             ELSE Bind(s1, LAMBDA s2 :
                    Bind(getNeighbors(g, current), LAMBDA ns :
                      dfsNeighbors(ns, 1, current, s2)))

\* dfsIter that reads the top of the stack without removing it
dfsIter_noPop(g, st) ==
  IF Len(st.stack) = 0 THEN ReturnFail(st)
  ELSE LET current == st.stack[Len(st.stack)]
           s1 == [st EXCEPT !.visitedPositions = Push(@, current)]
       IN  IF current.row = st.end.row /\ current.col = st.end.col
             THEN BeginPath(s1)
             ELSE Bind(s1, LAMBDA s2 :
                    Bind(getNeighbors(g, current), LAMBDA ns :
                      dfsNeighbors(ns, 1, current, s2)))

\* "while (stack.length > 0)": one test and, if it holds, one iteration
dfsIter(g, st) ==
  IF Len(st.stack) = 0 THEN ReturnFail(st)
  ELSE LET current == st.stack[Len(st.stack)]
           s1 == [st EXCEPT !.stack = SubSeq(@, 1, Len(@) - 1),
                            !.visitedPositions = Push(@, current)]
       IN  IF current.row = st.end.row /\ current.col = st.end.col
             THEN BeginPath(s1)
             ELSE Bind(s1, LAMBDA s2 :
                    Bind(getNeighbors(g, current), LAMBDA ns :
                      dfsNeighbors(ns, 1, current, s2)))

\* ----------------------------------------------------------- dijkstra
dijkstraSetup(g) ==
  LET se == findStartAndEnd(g)
  IN  IF se.start = Null \/ se.end = Null THEN ReturnEmpty
      ELSE [Blank EXCEPT !.pc = "loop", !.start = se.start, !.end = se.end,
                         !.distances =
                            MapSet([k \in {Key(c) : c \in Cells} |-> Infinity],
                                   Key(se.start), 0)]

RECURSIVE ScanMinDistance(_, _, _, _)
ScanMinDistance(st, i, minDist, minPos) ==
  IF i > Rows * Cols THEN minPos
  ELSE LET key == Key(RowMajor[i])
       IN  IF key \notin st.visited /\ st.distances[key] < minDist
             THEN ScanMinDistance(st, i + 1, st.distances[key], RowMajor[i])
             ELSE ScanMinDistance(st, i + 1, minDist, minPos)

RECURSIVE ScanAnyDistance(_, _)
ScanAnyDistance(st, i) ==
  IF i > Rows * Cols THEN Null
  ELSE IF Key(RowMajor[i]) \notin st.visited
          /\ st.distances[Key(RowMajor[i])] < Infinity
         THEN RowMajor[i]
         ELSE ScanAnyDistance(st, i + 1)

RECURSIVE ScanMinDistanceLast(_, _, _, _)
ScanMinDistanceLast(st, i, minDist, minPos) ==
  IF i > Rows * Cols THEN minPos
  ELSE LET key == Key(RowMajor[i])
       IN  IF key \notin st.visited /\ st.distances[key] < Infinity
              /\ st.distances[key] <= minDist
             THEN ScanMinDistanceLast(st, i + 1, st.distances[key], RowMajor[i])
             ELSE ScanMinDistanceLast(st, i + 1, minDist, minPos)

\* getMinDistance that compares with <=: the last cell of least distance
getMinDistance_last(st) == ScanMinDistanceLast(st, 1, Infinity, Null)

\* getMinDistance that stops at the first unvisited cell of finite distance
getMinDistance_first(st) == ScanAnyDistance(st, 1)

getMinDistance(st) == ScanMinDistance(st, 1, Infinity, Null)

\* dijkstraNeighbor that forgets the cost of the step to the neighbor
dijkstraNeighbor_noStep(st, neighbor, current) ==
  LET key == Key(neighbor)
      newDist == st.distances[Key(current)]
  IN  IF key \notin st.visited /\ newDist < st.distances[key]
        THEN [st EXCEPT !.distances = MapSet(@, key, newDist),
                        !.parent = MapSet(@, key, current)]
        ELSE st

\* the body of "for (const neighbor of getNeighbors(grid, current))"
dijkstraNeighbor(st, neighbor, current) ==
  LET key == Key(neighbor)
      newDist == st.distances[Key(current)] + 1
  IN  IF key \notin st.visited /\ newDist < st.distances[key]
        THEN [st EXCEPT !.distances = MapSet(@, key, newDist),
                        !.parent = MapSet(@, key, current)]
        ELSE st

RECURSIVE dijkstraNeighbors(_, _, _, _)
dijkstraNeighbors(ns, i, current, st) ==
  IF i > Len(ns) THEN st
  ELSE Bind(dijkstraNeighbor(st, ns[i], current),
            LAMBDA s2 : dijkstraNeighbors(ns, i + 1, current, s2))

\* "while (true)": one iteration, or the break and the return after it
dijkstraIter(g, st) ==
  Bind(getMinDistance(st), LAMBDA current :
    IF current = Null THEN ReturnFail(st)
    ELSE LET s1 == [st EXCEPT !.visited = @ \cup {Key(current)},
                              !.visitedPositions = Push(@, current)]
         IN  IF current.row = st.end.row /\ current.col = st.end.col
               THEN BeginPath(s1)
               ELSE Bind(s1, LAMBDA s2 :
                      Bind(getNeighbors(g, current), LAMBDA ns :
                        dijkstraNeighbors(ns, 1, current, s2))))

\* -------------------------------------------------------------- aStar
\* Math.abs(a.row - b.row) + Math.abs(a.col - b.col)
heuristic(a, b) == Abs(a.row - b.row) + Abs(a.col - b.col)

aStarSetup(g) ==
  LET se == findStartAndEnd(g)
      inf == [k \in {Key(c) : c \in Cells} |-> Infinity]
  IN  IF se.start = Null \/ se.end = Null THEN ReturnEmpty
      ELSE [Blank EXCEPT !.pc = "loop", !.start = se.start, !.end = se.end,
                         !.openSet = <<Key(se.start)>>,
                         !.gScore = MapSet(inf, Key(se.start), 0),
                         !.fScore = MapSet(inf, Key(se.start),
                                           heuristic(se.start, se.end))]

RECURSIVE ScanLowestF(_, _, _, _)
\* the scan of openSet, a Set iterated in insertion order
ScanLowestF(st, i, lowestFScore, currentKey) ==
  IF i > Len(st.openSet) THEN currentKey
  ELSE LET key == st.openSet[i]
       IN  IF st.fScore[key] < lowestFScore
             THEN ScanLowestF(st, i + 1, st.fScore[key], key)
             ELSE ScanLowestF(st, i + 1, lowestFScore, currentKey)

RECURSIVE ScanLowestFLast(_, _, _, _)
ScanLowestFLast(st, i, lowestFScore, currentKey) ==
  IF i > Len(st.openSet) THEN currentKey
  ELSE LET key == st.openSet[i]
       IN  IF st.fScore[key] <= lowestFScore
             THEN ScanLowestFLast(st, i + 1, st.fScore[key], key)
             ELSE ScanLowestFLast(st, i + 1, lowestFScore, currentKey)

\* lowestF that compares with <=: the open key of lowest fScore inserted last
lowestF_last(st) == ScanLowestFLast(st, 1, Infinity, "")

\* the open key inserted last, whatever its fScore
lowestF_newest(st) == st.openSet[Len(st.openSet)]

\* "Find node with lowest fScore"
lowestF(st) == ScanLowestF(st, 1, Infinity, "")

\* openSet.delete(key)
SeqDelete(s, x) == SelectSeq(s, LAMBDA y : y # x)

\* has(key) of an insertion-ordered Set or some(pos => ...) of an array
SeqHas(s, x) == \E i \in 1 .. Len(s) : s[i] = x

\* aStarNeighbor that also updates an open neighbor on an equal g-score
aStarNeighbor_tieUpdates(st, neighbor, current) ==
  LET neighborKey == Key(neighbor)
      tentativeGScore == st.gScore[Key(current)] + 1
      opened == IF SeqHas(st.openSet, neighborKey) THEN st
                ELSE [st EXCEPT !.openSet = Append(@, neighborKey)]
  IN  IF neighborKey \in st.closedSet THEN st
      ELSE IF SeqHas(st.openSet, neighborKey)
              /\ tentativeGScore > st.gScore[neighborKey] THEN st
      ELSE [opened EXCEPT
              !.parent = MapSet(@, neighborKey, current),
              !.gScore = MapSet(@, neighborKey, tentativeGScore),
              !.fScore = MapSet(@, neighborKey,
                                tentativeGScore + heuristic(neighbor, st.end))]

\* the body of "for (const neighbor of getNeighbors(grid, current))"
aStarNeighbor(st, neighbor, current) ==
  LET neighborKey == Key(neighbor)
      tentativeGScore == st.gScore[Key(current)] + 1
      opened == IF SeqHas(st.openSet, neighborKey) THEN st
                ELSE [st EXCEPT !.openSet = Append(@, neighborKey)]
  IN  IF neighborKey \in st.closedSet THEN st
      ELSE IF SeqHas(st.openSet, neighborKey)
              /\ tentativeGScore >= st.gScore[neighborKey] THEN st
      ELSE [opened EXCEPT
              !.parent = MapSet(@, neighborKey, current),
              !.gScore = MapSet(@, neighborKey, tentativeGScore),
              !.fScore = MapSet(@, neighborKey,
                                tentativeGScore + heuristic(neighbor, st.end))]

RECURSIVE aStarNeighbors(_, _, _, _)
aStarNeighbors(ns, i, current, st) ==
  IF i > Len(ns) THEN st
  ELSE Bind(aStarNeighbor(st, ns[i], current),
            LAMBDA s2 : aStarNeighbors(ns, i + 1, current, s2))

\* "while (openSet.size > 0)": one test and, if it holds, one iteration
aStarIter(g, st) ==
  IF Len(st.openSet) = 0 THEN ReturnFail(st)
  ELSE Bind(lowestF(st), LAMBDA currentKey :
         IF currentKey = "" THEN [st EXCEPT !.pc = "error"]
         ELSE Bind(ParseKey(currentKey), LAMBDA current :
                LET s1 == [st EXCEPT !.openSet = SeqDelete(@, currentKey),
                                     !.closedSet = @ \cup {currentKey},
                                     !.visitedPositions = Push(@, current)]
                IN  IF current.row = st.end.row /\ current.col = st.end.col
                      THEN BeginPath(st)
                      ELSE Bind(s1, LAMBDA s2 :
                             Bind(getNeighbors(g, current), LAMBDA ns :
                               aStarNeighbors(ns, 1, current, s2)))))

\* ---------------------------------------------------- greedyBestFirst
RECURSIVE greedyScan(_, _, _)
\* the start / end scan inside greedyBestFirst: two independent tests
greedyScan(g, i, acc) ==
  IF i > Rows * Cols THEN acc
  ELSE LET c == RowMajor[i]
           a1 == IF g[c] = "start" THEN [acc EXCEPT !.start = c] ELSE acc
           a2 == IF g[c] = "end" THEN [a1 EXCEPT !.end = c] ELSE a1
       IN  greedyScan(g, i + 1, a2)

greedySetup(g) ==
  LET se == greedyScan(g, 1, [start |-> Null, end |-> Null])
  IN  IF se.start = Null \/ se.end = Null THEN ReturnEmpty
      ELSE [Blank EXCEPT !.pc = "loop", !.start = se.start, !.end = se.end,
                         !.openSet = <<se.start>>,
                         !.closedSet = {DashKey(se.start)}]

RECURSIVE greedyIndex(_, _, _)
\* the index of the first open position of lowest heuristic value
greedyIndex(st, i, currentIndex) ==
  IF i > Len(st.openSet) THEN currentIndex
  ELSE IF heuristic(st.openSet[i], st.end)
             < heuristic(st.openSet[currentIndex], st.end)
         THEN greedyIndex(st, i + 1, i)
         ELSE greedyIndex(st, i + 1, currentIndex)

RECURSIVE greedyIndexLast(_, _, _)
greedyIndexLast(st, i, currentIndex) ==
  IF i > Len(st.openSet) THEN currentIndex
  ELSE IF heuristic(st.openSet[i], st.end)
             <= heuristic(st.openSet[currentIndex], st.end)
         THEN greedyIndexLast(st, i + 1, i)
         ELSE greedyIndexLast(st, i + 1, currentIndex)

\* lowestH that compares with <=: the last open position of lowest value
lowestH_last(st) == greedyIndexLast(st, 1, 1)

\* "Find the position with the lowest heuristic value"
lowestH(st) == greedyIndex(st, 1, 1)

\* openSet.splice(currentIndex, 1)
Splice(s, i) == SubSeq(s, 1, i - 1) \o SubSeq(s, i + 1, Len(s))

\* the body of "for (const neighbor of neighbors)"
greedyNeighbor(g, st, neighbor, current) ==
  IF \/ neighbor.row < 0
     \/ neighbor.row >= Rows
     \/ neighbor.col < 0
     \/ neighbor.col >= Cols
     \/ g[neighbor] = "wall"
     \/ DashKey(neighbor) \in st.closedSet
    THEN st
  ELSE IF ~SeqHas(st.openSet, neighbor)
    THEN [st EXCEPT !.openSet = Append(@, neighbor),
                    !.cameFrom = MapSet(@, DashKey(neighbor), current)]
  ELSE st

RECURSIVE greedyNeighbors(_, _, _, _, _)
greedyNeighbors(g, ns, i, current, st) ==
  IF i > Len(ns) THEN st
  ELSE Bind(greedyNeighbor(g, st, ns[i], current),
            LAMBDA s2 : greedyNeighbors(g, ns, i + 1, current, s2))

\* "while (openSet.length > 0)": one test and, if it holds, one iteration
greedyIter(g, st) ==
  IF Len(st.openSet) = 0 THEN [st EXCEPT !.pc = "done", !.success = FALSE]
  ELSE Bind(lowestH(st), LAMBDA currentIndex :
         LET current == st.openSet[currentIndex]
             s1 == [st EXCEPT !.visitedPositions = Push(@, current),
                              !.openSet = Splice(@, currentIndex)]
             neighbors == << Pos(current.row - 1, current.col),
                             Pos(current.row + 1, current.col),
                             Pos(current.row, current.col - 1),
                             Pos(current.row, current.col + 1) >>
         IN  IF current.row = st.end.row /\ current.col = st.end.col
               THEN [s1 EXCEPT !.pc = "recon", !.currentPos = current]
               ELSE Bind(s1, LAMBDA s2 :
                      Bind(neighbors, LAMBDA ns :
                        greedyNeighbors(g, ns, 1, current, s2))))

\* one test of the reconstruction loop of greedyBestFirst and, if the test
\* holds, one round of the loop
greedyPathStep(st) ==
  IF st.currentPos = Null
    THEN [st EXCEPT !.pc = "error"]                 \* pos.row of undefined
  ELSE IF st.currentPos.row # st.start.row \/ st.currentPos.col # st.start.col
    THEN LET key == DashKey(st.currentPos)
         IN  [st EXCEPT !.path = Unshift(@, st.currentPos),
                        !.currentPos = IF key \in DOMAIN st.cameFrom
                                         THEN st.cameFrom[key] ELSE Null]
  ELSE [st EXCEPT !.path = Unshift(@, st.start), !.pc = "done", !.success = TRUE]

\* ------------------------------------------------- whole invocations
\* one step of the invocation of strategy a on grid g in working state st
Step(a, g, st) ==
  CASE st.pc = "call" ->
         ( CASE a = "bfs" -> bfsSetup(g)
             [] a = "dfs" -> dfsSetup(g)
             [] a = "dijkstra" -> dijkstraSetup(g)
             [] a = "aStar" -> aStarSetup(g)
             [] a = "greedyBestFirst" -> greedySetup(g) )
    [] st.pc = "loop" ->
         ( CASE a = "bfs" -> bfsIter(g, st)
             [] a = "dfs" -> dfsIter(g, st)
             [] a = "dijkstra" -> dijkstraIter(g, st)
             [] a = "aStar" -> aStarIter(g, st)
             [] a = "greedyBestFirst" -> greedyIter(g, st) )
    [] st.pc = "recon" ->
         IF a = "greedyBestFirst" THEN greedyPathStep(st) ELSE PathStep(st)
    [] OTHER -> st

\* steps after which an invocation that has not returned is given up
MaxSteps == 3 * MaxTrace

RECURSIVE Run(_, _, _, _)
Run(a, g, st, fuel) ==
  IF st.pc \in {"done", "error"} \/ fuel = 0 THEN st
  ELSE Bind(Step(a, g, st), LAMBDA s2 : Run(a, g, s2, fuel - 1))

\* the invocation from call to return (pc = "done": it returned)
bfs(g) == Run("bfs", g, Blank, MaxSteps)
dfs(g) == Run("dfs", g, Blank, MaxSteps)
dijkstra(g) == Run("dijkstra", g, Blank, MaxSteps)
aStar(g) == Run("aStar", g, Blank, MaxSteps)
greedyBestFirst(g) == Run("greedyBestFirst", g, Blank, MaxSteps)

\* --------------------- greedyBestFirst, the variant with a Set as open set
greedy2Setup(g) ==
  LET se == findStartAndEnd(g)
  IN  IF se.start = Null \/ se.end = Null THEN ReturnEmpty
      ELSE [Blank EXCEPT !.pc = "loop", !.start = se.start, !.end = se.end,
                         !.openSet = <<Key(se.start)>>]

RECURSIVE ScanLowestHeuristic(_, _, _, _)
\* the scan of openSet, a Set iterated in insertion order
ScanLowestHeuristic(st, i, lowestHeuristic, currentKey) ==
  IF i > Len(st.openSet) THEN currentKey
  ELSE LET key == st.openSet[i]
           h == heuristic(ParseKey(key), st.end)
       IN  IF h < lowestHeuristic
             THEN ScanLowestHeuristic(st, i + 1, h, key)
             ELSE ScanLowestHeuristic(st, i + 1, lowestHeuristic, currentKey)

\* "Find node with lowest heuristic value"
lowestHeuristic(st) == ScanLowestHeuristic(st, 1, Infinity, "")

\* the body of "for (const neighbor of getNeighbors(grid, current))"
greedy2Neighbor(st, neighbor, current) ==
  LET neighborKey == Key(neighbor)
  IN  IF neighborKey \in st.closedSet THEN st
      ELSE IF ~SeqHas(st.openSet, neighborKey)
        THEN [st EXCEPT !.openSet = Append(@, neighborKey),
                        !.parent = MapSet(@, neighborKey, current)]
      ELSE st

RECURSIVE greedy2Neighbors(_, _, _, _)
greedy2Neighbors(ns, i, current, st) ==
  IF i > Len(ns) THEN st
  ELSE Bind(greedy2Neighbor(st, ns[i], current),
            LAMBDA s2 : greedy2Neighbors(ns, i + 1, current, s2))

\* "while (openSet.size > 0)": one test and, if it holds, one iteration
greedy2Iter(g, st) ==
  IF Len(st.openSet) = 0 THEN ReturnFail(st)
  ELSE Bind(lowestHeuristic(st), LAMBDA currentKey :
         IF currentKey = "" THEN [st EXCEPT !.pc = "error"]
         ELSE Bind(ParseKey(currentKey), LAMBDA current :
                LET s1 == [st EXCEPT !.openSet = SeqDelete(@, currentKey),
                                     !.closedSet = @ \cup {currentKey},
                                     !.visitedPositions = Push(@, current)]
                IN  IF current.row = st.end.row /\ current.col = st.end.col
                      THEN BeginPath(st)
                      ELSE Bind(s1, LAMBDA s2 :
                             Bind(getNeighbors(g, current), LAMBDA ns :
                               greedy2Neighbors(ns, 1, current, s2)))))

\* one step of the invocation of the variant on grid g in working state st
Step2(g, st) ==
  CASE st.pc = "call" -> greedy2Setup(g)
    [] st.pc = "loop" -> greedy2Iter(g, st)
    [] st.pc = "recon" -> PathStep(st)
    [] OTHER -> st

RECURSIVE Run2(_, _, _)
Run2(g, st, fuel) ==
  IF st.pc \in {"done", "error"} \/ fuel = 0 THEN st
  ELSE Bind(Step2(g, st), LAMBDA s2 : Run2(g, s2, fuel - 1))

\* the invocation of the variant from call to return
greedyBestFirst2(g) == Run2(g, Blank, MaxSteps)

\* ------------------------------------------------------- state machine
VARIABLES grid, alg, pc, start, end, queue, stack, openSet, visited,
          closedSet, parent, cameFrom, distances, gScore, fScore,
          visitedPositions, path, currentPos, success

\* the state of the page that shows the grid and starts the strategies:
\* isRunning, isDrawing and selectedAlgorithm as in the source; pending
\* holds, for every visualizeAlgorithm call that has not finished, the
\* steps it has still to show; events counts the input events so far
VARIABLES isRunning, isDrawing, selectedAlgorithm, pending, events

pageVars == << isRunning, isDrawing, selectedAlgorithm, pending, events >>

vars == << grid, alg, pc, start, end, queue, stack, openSet, visited,
           closedSet, parent, cameFrom, distances, gScore, fScore,
           visitedPositions, path, currentPos, success,
           isRunning, isDrawing, selectedAlgorithm, pending, events >>

\* the page as first rendered: the useState initial values
PageIdle ==
  /\ isRunning = FALSE
  /\ isDrawing = FALSE
  /\ selectedAlgorithm = "dijkstra"
  /\ pending = <<>>
  /\ events = 0

\* the working state of the running invocation, as one record
State ==
  [pc |-> pc, start |-> start, end |-> end,
   queue |-> queue, stack |-> stack, openSet |-> openSet,
   visited |-> visited, closedSet |-> closedSet, parent |-> parent,
   cameFrom |-> cameFrom, distances |-> distances, gScore |-> gScore,
   fScore |-> fScore, visitedPositions |-> visitedPositions, path |-> path,
   currentPos |-> currentPos, success |-> success]

\* Becomes that also marks the visited empty cells in the grid
Becomes_paint(st) ==
  /\ pc' = st.pc
  /\ start' = st.start
  /\ end' = st.end
  /\ queue' = st.queue
  /\ stack' = st.stack
  /\ openSet' = st.openSet
  /\ visited' = st.visited
  /\ closedSet' = st.closedSet
  /\ parent' = st.parent
  /\ cameFrom' = st.cameFrom
  /\ distances' = st.distances
  /\ gScore' = st.gScore
  /\ fScore' = st.fScore
  /\ visitedPositions' = st.visitedPositions
  /\ path' = st.path
  /\ currentPos' = st.currentPos
  /\ success' = st.success
  /\ grid' = [c \in Cells |->
                IF grid[c] = "empty"
                   /\ \E i \in 1 .. Len(st.visitedPositions) :
                        st.visitedPositions[i] = c
                  THEN "visited" ELSE grid[c]]
  /\ alg' = alg
  /\ UNCHANGED pageVars

\* the step leaves the working state as st; the grid is only read
Becomes(st) ==
  /\ pc' = st.pc
  /\ start' = st.start
  /\ end' = st.end
  /\ queue' = st.queue
  /\ stack' = st.stack
  /\ openSet' = st.openSet
  /\ visited' = st.visited
  /\ closedSet' = st.closedSet
  /\ parent' = st.parent
  /\ cameFrom' = st.cameFrom
  /\ distances' = st.distances
  /\ gScore' = st.gScore
  /\ fScore' = st.fScore
  /\ visitedPositions' = st.visitedPositions
  /\ path' = st.path
  /\ currentPos' = st.currentPos
  /\ success' = st.success
  /\ UNCHANGED << grid, alg >>
  /\ UNCHANGED pageVars

\* the grid with the given start cell, end cell (Null: none) and walls
MakeGrid(s, e, walls) ==
  [c \in Cells |-> IF c = s THEN "start"
                   ELSE IF c = e THEN "end"
                   ELSE IF c \in walls THEN "wall"
                   ELSE "empty"]

\* the grids the caller builds: at most one start, at most one end;
\* here with at most n walls
Grids(n) ==
  { MakeGrid(t[1], t[2], t[3]) :
      t \in { u \in (Cells \cup {Null}) \X (Cells \cup {Null}) \X SUBSET Cells :
                /\ u[1] = Null \/ u[1] # u[2]
                /\ u[3] \cap {u[1], u[2]} = {}
                /\ Cardinality(u[3]) <= n } }

\* a strategy is about to be called on a grid with at most n walls
InitOn(n) ==
  /\ grid \in Grids(n)
  /\ alg \in Strategies
  /\ pc = Blank.pc
  /\ start = Blank.start
  /\ end = Blank.end
  /\ queue = Blank.queue
  /\ stack = Blank.stack
  /\ openSet = Blank.openSet
  /\ visited = Blank.visited
  /\ closedSet = Blank.closedSet
  /\ parent = Blank.parent
  /\ cameFrom = Blank.cameFrom
  /\ distances = Blank.distances
  /\ gScore = Blank.gScore
  /\ fScore = Blank.fScore
  /\ visitedPositions = Blank.visitedPositions
  /\ path = Blank.path
  /\ currentPos = Blank.currentPos
  /\ success = Blank.success
  /\ PageIdle

\* the running invocation takes its next step
Advance == \E cur \in {State} : \E st \in {Step(alg, grid, cur)} : Becomes(st)

\* the call: start / end scan, early return or set-up of the structures
bfsCall == alg = "bfs" /\ pc = "call" /\ Advance
\* the loop test with one iteration or the return after the loop
bfsLoop == alg = "bfs" /\ pc = "loop" /\ Advance
\* one round of the path reconstruction or the return after it
bfsPath == alg = "bfs" /\ pc = "recon" /\ Advance

dfsCall == alg = "dfs" /\ pc = "call" /\ Advance
dfsLoop == alg = "dfs" /\ pc = "loop" /\ Advance
dfsPath == alg = "dfs" /\ pc = "recon" /\ Advance

dijkstraCall == alg = "dijkstra" /\ pc = "call" /\ Advance
dijkstraLoop == alg = "dijkstra" /\ pc = "loop" /\ Advance
dijkstraPath == alg = "dijkstra" /\ pc = "recon" /\ Advance

aStarCall == alg = "aStar" /\ pc = "call" /\ Advance
aStarLoop == alg = "aStar" /\ pc = "loop" /\ Advance
aStarPath == alg = "aStar" /\ pc = "recon" /\ Advance

greedyCall ==
  alg = "greedyBestFirst" /\ pc = "call" /\ Advance
greedyLoop ==
  alg = "greedyBestFirst" /\ pc = "loop" /\ Advance
greedyPath ==
  alg = "greedyBestFirst" /\ pc = "recon" /\ Advance

Next ==
  \/ bfsCall \/ bfsLoop \/ bfsPath
  \/ dfsCall \/ dfsLoop \/ dfsPath
  \/ dijkstraCall \/ dijkstraLoop \/ dijkstraPath
  \/ aStarCall \/ aStarLoop \/ aStarPath
  \/ greedyCall \/ greedyLoop \/ greedyPath

Init == InitOn(MaxWalls)

Spec == Init /\ [][Next]_vars

FairInit == InitOn(FairWalls)

\* a strategy that is entered runs on: no other thread, no suspension
FairSpec == FairInit /\ [][Next]_vars /\ WF_vars(Next)

\* ------------------------------------- grids with several start / end cells
\* most start cells of a grid with repeated marks
MaxStarts == 2
\* most end cells of a grid with repeated marks
MaxEnds == 2

RECURSIVE UpTo(_)
\* the sets of at most k cells
UpTo(k) ==
  IF k = 0 THEN {{}}
  ELSE UpTo(k - 1) \cup {s \cup {c} : s \in UpTo(k - 1), c \in Cells}

\* the grids a Cell[][] value can hold with up to MaxStarts start cells and
\* up to MaxEnds end cells, the other cells empty
MarkedGrids ==
  { [c \in Cells |-> IF c \in t[1] THEN "start"
                     ELSE IF c \in t[2] THEN "end"
                     ELSE "empty"] :
      t \in { u \in UpTo(MaxStarts) \X UpTo(MaxEnds) : u[1] \cap u[2] = {} } }

\* a strategy is about to be called on a grid with repeated marks
MarkedInit ==
  /\ grid \in MarkedGrids
  /\ alg \in Strategies
  /\ pc = Blank.pc
  /\ start = Blank.start
  /\ end = Blank.end
  /\ queue = Blank.queue
  /\ stack = Blank.stack
  /\ openSet = Blank.openSet
  /\ visited = Blank.visited
  /\ closedSet = Blank.closedSet
  /\ parent = Blank.parent
  /\ cameFrom = Blank.cameFrom
  /\ distances = Blank.distances
  /\ gScore = Blank.gScore
  /\ fScore = Blank.fScore
  /\ visitedPositions = Blank.visitedPositions
  /\ path = Blank.path
  /\ currentPos = Blank.currentPos
  /\ success = Blank.success
  /\ PageIdle

MarkedSpec == MarkedInit /\ [][Next]_vars

\* ------------------------------------------------------------ the page
\* most input events (mouse, key, button) of a session
MaxEvents == 5
\* most visualizeAlgorithm calls that have not finished
MaxPending == 2

\* type Algorithm
Algorithm == {"dijkstra", "a*", "bfs", "dfs"}

searchVars == << alg, pc, start, end, queue, stack, openSet, visited,
                 closedSet, parent, cameFrom, distances, gScore, fScore,
                 visitedPositions, path, currentPos, success >>

\* the grid of the "Initialize grid" effect
EmptyGrid == [c \in Cells |-> "empty"]

\* handleCellClick with the test for an existing start cell made in the
\* row of the clicked cell only
handleCellClick_rowOnly(g, c) ==
  IF g[c] = "start" \/ g[c] = "end" THEN [g EXCEPT ![c] = "empty"]
  ELSE IF ~\E d \in Cells : d.row = c.row /\ g[d] = "start"
    THEN [g EXCEPT ![c] = "start"]
  ELSE IF ~\E d \in Cells : g[d] = "end" THEN [g EXCEPT ![c] = "end"]
  ELSE [g EXCEPT ![c] = IF g[c] = "wall" THEN "empty" ELSE "wall"]

\* the updater handleCellClick passes to setGrid, applied to grid g
handleCellClick(g, c) ==
  IF g[c] = "start" \/ g[c] = "end" THEN [g EXCEPT ![c] = "empty"]
  ELSE IF ~\E d \in Cells : g[d] = "start" THEN [g EXCEPT ![c] = "start"]
  ELSE IF ~\E d \in Cells : g[d] = "end" THEN [g EXCEPT ![c] = "end"]
  ELSE [g EXCEPT ![c] = IF g[c] = "wall" THEN "empty" ELSE "wall"]

\* the switch of runAlgorithm
SearchResult(sel, g) ==
  CASE sel = "dijkstra" -> dijkstra(g)
    [] sel = "a*" -> aStar(g)
    [] sel = "bfs" -> bfs(g)
    [] sel = "dfs" -> dfs(g)

\* the writes one loop of visualizeAlgorithm makes: one for each position
\* that is neither start nor end in g, the grid the callback was made with
LoopSteps(kind, positions, g) ==
  LET shown == SelectSeq(positions,
                         LAMBDA pos : g[pos] # "start" /\ g[pos] # "end")
  IN  [i \in 1 .. Len(shown) |-> [type |-> kind, position |-> shown[i]]]

\* the writes of visualizeAlgorithm(result), in order
Steps(result, g) ==
  IF ~result.success THEN <<>>
  ELSE LoopSteps("visited", result.visitedPositions, g)
         \o LoopSteps("path", result.path, g)

\* an input event is counted
Counted == events < MaxEvents /\ events' = events + 1

\* runAlgorithm: with isRunning set it clears the flag; otherwise it runs
\* the selected strategy and starts to show the result (a result with
\* nothing to show is finished at once)
runAlgorithm ==
  IF isRunning
    THEN isRunning' = FALSE /\ UNCHANGED << grid, isDrawing, selectedAlgorithm, pending >>
    ELSE /\ Len(pending) < MaxPending
         /\ \E result \in {SearchResult(selectedAlgorithm, grid)} :
              \E steps \in {Steps(result, grid)} :
                IF steps = <<>>
                  THEN UNCHANGED << isRunning, pending >>
                  ELSE isRunning' = TRUE /\ pending' = Append(pending, steps)
         /\ UNCHANGED << grid, isDrawing, selectedAlgorithm >>

handleMouseDown ==
  /\ ~isRunning
  /\ Counted
  /\ isDrawing' = TRUE
  /\ \E c \in Cells : grid' = handleCellClick(grid, c)
  /\ UNCHANGED << isRunning, selectedAlgorithm, pending >>
  /\ UNCHANGED searchVars

handleMouseEnter ==
  /\ isDrawing /\ ~isRunning
  /\ Counted
  /\ \E c \in Cells : grid' = handleCellClick(grid, c)
  /\ UNCHANGED << isRunning, isDrawing, selectedAlgorithm, pending >>
  /\ UNCHANGED searchVars

handleMouseUp ==
  /\ Counted
  /\ isDrawing' = FALSE
  /\ UNCHANGED << grid, isRunning, selectedAlgorithm, pending >>
  /\ UNCHANGED searchVars

\* the "Clear Grid" button or Ctrl/Cmd + C
clearGrid ==
  /\ ~isRunning
  /\ Counted
  /\ grid' = [c \in Cells |-> "empty"]
  /\ UNCHANGED << isRunning, isDrawing, selectedAlgorithm, pending >>
  /\ UNCHANGED searchVars

\* the "Clear Path" button or Ctrl/Cmd + P
clearPath ==
  /\ ~isRunning
  /\ Counted
  /\ grid' = [c \in Cells |->
                IF grid[c] = "path" \/ grid[c] = "visited"
                  THEN "empty" ELSE grid[c]]
  /\ UNCHANGED << isRunning, isDrawing, selectedAlgorithm, pending >>
  /\ UNCHANGED searchVars

\* the algorithm select, disabled while isRunning
selectAlgorithm ==
  /\ ~isRunning
  /\ Counted
  /\ \E a \in Algorithm : selectedAlgorithm' = a
  /\ UNCHANGED << grid, isRunning, isDrawing, pending >>
  /\ UNCHANGED searchVars

\* the start button, disabled while isRunning
startButton ==
  /\ ~isRunning
  /\ Counted
  /\ runAlgorithm
  /\ UNCHANGED searchVars

\* handleKeyPress for the Space key
handleKeyPress ==
  /\ Counted
  /\ IF isRunning
       THEN isRunning' = FALSE /\ UNCHANGED << grid, isDrawing, selectedAlgorithm, pending >>
       ELSE runAlgorithm
  /\ UNCHANGED searchVars

\* a timer of visualizeAlgorithm fires: the next write of one of the
\* unfinished calls is made; after the last write of a call runAlgorithm
\* goes on to setIsRunning(false)
animationStep ==
  \E i \in 1 .. Len(pending) :
    LET step == Head(pending[i])
        rest == Tail(pending[i])
    IN  /\ grid' = [grid EXCEPT ![step.position] = step.type]
        /\ IF rest = <<>>
             THEN /\ pending' = SubSeq(pending, 1, i - 1)
                                  \o SubSeq(pending, i + 1, Len(pending))
                  /\ isRunning' = FALSE
             ELSE /\ pending' = [pending EXCEPT ![i] = rest]
                  /\ UNCHANGED isRunning
        /\ UNCHANGED << isDrawing, selectedAlgorithm, events >>
        /\ UNCHANGED searchVars

\* the page after the first render; the strategies run inside
\* runAlgorithm from call to return, so the variables of a single
\* invocation stay as before a call
PageInit ==
  /\ grid = EmptyGrid
  /\ alg = "dijkstra"
  /\ pc = Blank.pc
  /\ start = Blank.start
  /\ end = Blank.end
  /\ queue = Blank.queue
  /\ stack = Blank.stack
  /\ openSet = Blank.openSet
  /\ visited = Blank.visited
  /\ closedSet = Blank.closedSet
  /\ parent = Blank.parent
  /\ cameFrom = Blank.cameFrom
  /\ distances = Blank.distances
  /\ gScore = Blank.gScore
  /\ fScore = Blank.fScore
  /\ visitedPositions = Blank.visitedPositions
  /\ path = Blank.path
  /\ currentPos = Blank.currentPos
  /\ success = Blank.success
  /\ PageIdle

PageNext ==
  \/ handleMouseEnter \/ handleMouseDown \/ handleMouseUp
  \/ clearGrid \/ clearPath \/ selectAlgorithm
  \/ startButton \/ handleKeyPress
  \/ animationStep

PageSpec == PageInit /\ [][PageNext]_vars

\* --------------------------------------------------- reference notions
Range(s) == {s[i] : i \in 1 .. Len(s)}

NoRepeat(s) == \A i, j \in 1 .. Len(s) : s[i] = s[j] => i = j

HasKind(g, k) == \E c \in Cells : g[c] = k

Walls(g) == {c \in Cells : g[c] = "wall"}

\* the only cell of kind k
TheCell(g, k) == CHOOSE c \in Cells : g[c] = k

\* a and b are one step up, down, left or right of each other
Adjacent(a, b) == Abs(a.row - b.row) + Abs(a.col - b.col) = 1

RECURSIVE Levels(_, _, _, _, _)
\* number of the first level-by-level wave from the cells in wave that
\* contains e; -1 when no wave does
Levels(g, wave, seen, e, d) ==
  IF e \in wave THEN d
  ELSE IF wave = {} THEN -1
  ELSE LET nxt == {c \in Cells \ (seen \cup Walls(g)) :
                     \E w \in wave : Adjacent(c, w)}
       IN  Levels(g, nxt, seen \cup nxt, e, d + 1)

\* minimum number of 4-connected steps from s to e through non-wall cells
MinSteps(g, s, e) == Levels(g, {s}, {s}, e, 0)

\* p is a walk from s to e: 4-adjacent steps, no repeat, no wall
ValidWalk(g, p, s, e) ==
  /\ Len(p) >= 1
  /\ p[1] = s
  /\ p[Len(p)] = e
  /\ \A i \in 1 .. Len(p) - 1 : Adjacent(p[i], p[i + 1])
  /\ NoRepeat(p)
  /\ \A i \in 1 .. Len(p) : p[i] \in Cells /\ g[p[i]] # "wall"

Returned == pc = "done"

\* ------------------------------------------------------------- claims
Optimal == {"bfs", "dijkstra", "aStar"}

\* C1: whenever bfs returns success = true, the number of steps of the
\* returned path (its length minus one) is the minimum number of
\* 4-connected steps from start to end through non-wall cells.
C1_BfsShortest ==
  (Returned /\ alg = "bfs" /\ success)
    => Len(path) - 1 = MinSteps(grid, start, end)

\* bfs has returned a path that walls force to be longer than the
\* Manhattan distance
C1_Witness ==
  /\ Returned /\ alg = "bfs" /\ success
  /\ Len(path) - 1 > heuristic(start, end)

\* C2: on every grid with one start and one end, bfs and dijkstra return
\* the same success flag and, when successful, paths of equal length.
C2_BfsDijkstraAgree ==
  (Returned /\ alg = "bfs" /\ HasKind(grid, "start") /\ HasKind(grid, "end"))
    => LET d == dijkstra(grid)
       IN  /\ d.pc = "done"
           /\ d.success = success
           /\ success => Len(d.path) = Len(path)

\* bfs has returned a detour path and the visited traces of the two differ
C2_Witness ==
  /\ Returned /\ alg = "bfs" /\ success
  /\ Len(path) - 1 > heuristic(start, end)
  /\ dijkstra(grid).visitedPositions # visitedPositions

\* C3: on every grid with one start and one end, aStar returns the same
\* success flag as bfs and, when successful, a path as long as the one bfs
\* returns.
C3_AStarAsShortAsBfs ==
  (Returned /\ alg = "aStar" /\ HasKind(grid, "start") /\ HasKind(grid, "end"))
    => LET b == bfs(grid)
       IN  /\ b.pc = "done"
           /\ b.success = success
           /\ success => Len(path) = Len(b.path)

\* aStar has returned a detour path and expanded fewer positions than bfs
C3_Witness ==
  /\ Returned /\ alg = "aStar" /\ success
  /\ Len(path) - 1 > heuristic(start, end)
  /\ Len(visitedPositions) < Len(bfs(grid).visitedPositions) - 1

\* C4: on every grid without wall cells that has one start and one end,
\* bfs, dijkstra and aStar each return success = true with a path of
\* |start.row - end.row| + |start.col - end.col| + 1 positions.
C4_NoWallManhattan ==
  (/\ Returned /\ alg \in Optimal
   /\ HasKind(grid, "start") /\ HasKind(grid, "end")
   /\ Walls(grid) = {})
    => /\ success
       /\ Len(path) = Abs(TheCell(grid, "start").row - TheCell(grid, "end").row)
                      + Abs(TheCell(grid, "start").col - TheCell(grid, "end").col)
                      + 1

\* aStar has returned on a grid without walls, corner to corner
C4_Witness ==
  /\ Returned /\ alg = "aStar" /\ Walls(grid) = {}
  /\ success /\ Len(path) = Rows + Cols - 1

\* C5: whenever dfs or greedyBestFirst returns success = true, the returned
\* path is a valid walk: first element start, last element end, consecutive
\* positions one step up, down, left or right apart, no position twice, no
\* wall cell.
C5_DfsGreedyValidWalk ==
  (Returned /\ alg \in {"dfs", "greedyBestFirst"} /\ success)
    => ValidWalk(grid, path, TheCell(grid, "start"), TheCell(grid, "end"))

\* dfs has returned a path longer than the shortest one
C5_Witness ==
  /\ Returned /\ alg = "dfs" /\ success
  /\ Len(path) - 1 > MinSteps(grid, start, end)

\* C6: for bfs, dfs, dijkstra and aStar, at every point of the run and in
\* the returned result, the visited trace holds no position more than once.
C6_VisitedNoRepeat ==
  alg \in {"bfs", "dfs", "dijkstra", "aStar"} => NoRepeat(visitedPositions)

\* dijkstra has expanded every cell of a grid without walls
C6_Witness ==
  /\ alg = "dijkstra" /\ Walls(grid) = {}
  /\ Len(visitedPositions) = Rows * Cols

\* C7: in greedyBestFirst a position that has once been selected as
\* current is never put back into the open set and never selected again,
\* so its visited trace holds no position more than once.
C7_GreedyNoReselect ==
  alg = "greedyBestFirst"
    => /\ NoRepeat(visitedPositions)
       /\ Range(visitedPositions) \cap Range(openSet) = {}

\* C8: bfs, dfs, dijkstra and aStar terminate on every grid: the main loop
\* and the path reconstruction loop both finish and a result is returned.
C8_FourTerminate ==
  (pc = "call" /\ alg \in {"bfs", "dfs", "dijkstra", "aStar"}) ~> Returned

\* one of the four has returned after its main loop expanded several
\* positions and its reconstruction loop walked several parents
C8_Witness ==
  /\ Returned /\ alg \in {"bfs", "dfs", "dijkstra", "aStar"}
  /\ Len(visitedPositions) >= 5 /\ Len(path) >= 5

\* C9: greedyBestFirst terminates and returns a result on every grid, both
\* when end is reachable from start and when it is not.
C9_GreedyTerminates ==
  (pc = "call" /\ alg = "greedyBestFirst") ~> Returned

\* C10: if the grid has no start cell or no end cell, each strategy returns
\* exactly path = [], visited = [], success = false, without expanding any
\* position.
C10_MissingEndpoint ==
  (~HasKind(grid, "start") \/ ~HasKind(grid, "end"))
    => /\ pc \in {"call", "done"}
       /\ path = <<>> /\ visitedPositions = <<>> /\ success = FALSE
       /\ queue = <<>> /\ stack = <<>> /\ openSet = <<>>
       /\ visited = {} /\ closedSet = {}

\* greedyBestFirst has returned on a grid with an end cell but no start cell
C10_Witness ==
  /\ Returned /\ alg = "greedyBestFirst"
  /\ ~HasKind(grid, "start") /\ HasKind(grid, "end")

\* the grid has a start and an end cell and end can be reached from start
\* through non-wall cells
EndReachable(g) ==
  /\ HasKind(g, "start") /\ HasKind(g, "end")
  /\ MinSteps(g, TheCell(g, "start"), TheCell(g, "end")) >= 0

\* the grid has a start and an end cell and end cannot be reached from start
EndCutOff(g) ==
  /\ HasKind(g, "start") /\ HasKind(g, "end")
  /\ MinSteps(g, TheCell(g, "start"), TheCell(g, "end")) = -1

\* C11: on every grid with start and end present where end is not
\* reachable from start, each of the five strategies returns
\* success = false with an empty path.
C11_UnreachableFails ==
  (pc = "call" /\ EndCutOff(grid))
    ~> (Returned /\ success = FALSE /\ path = <<>>)

\* C12: on every grid with start and end present where end is reachable
\* from start, each of the five strategies returns success = true.
C12_ReachableSucceeds ==
  (pc = "call" /\ EndReachable(grid)) ~> (Returned /\ success = TRUE)

\* C13: no strategy changes the input grid: every cell of the grid has the
\* same kind after every step of an invocation as before it.
C13_GridUnchanged == [][grid' = grid]_vars

\* a strategy has returned a path after also visiting cells off the path
C13_Witness ==
  /\ Returned /\ success
  /\ Len(visitedPositions) > Len(path)
  /\ \E c \in Cells : grid[c] = "empty"

\* C14: for bfs, dijkstra and aStar the returned path is empty when
\* success = false and is a valid walk from start to end (4-adjacent
\* steps, no repeated position, no wall cell) when success = true.
C14_OptimalPathShape ==
  (Returned /\ alg \in Optimal)
    => IF success
         THEN ValidWalk(grid, path, TheCell(grid, "start"),
                        TheCell(grid, "end"))
         ELSE path = <<>>

\* bfs, dijkstra or aStar has returned a walk that turns a corner
C14_Witness ==
  /\ Returned /\ alg \in Optimal /\ success
  /\ Len(path) >= 3
  /\ path[1].row # path[Len(path)].row
  /\ path[1].col # path[Len(path)].col

\* the cells beyond the 3 x 3 corner of the grid
Outside == {c \in Cells : c.row > 2 \/ c.col > 2}

\* the 3 x 3 grid with start (0,0), end (0,2) and walls at (0,1) and (1,1)
WalledGrid ==
  MakeGrid(Pos(0, 0), Pos(0, 2), {Pos(0, 1), Pos(1, 1)} \cup Outside)

\* C15: on the 3 x 3 grid with walls at (0,1) and (1,1), start (0,0) and
\* end (0,2), each of the five strategies returns success = true with a
\* path of exactly 7 positions.
C15_WalledGridSeven ==
  (pc = "call" /\ grid = WalledGrid)
    ~> (Returned /\ success /\ Len(path) = 7)

\* the 3 x 3 grid without walls, start (0,0), end (2,2)
OpenGrid == MakeGrid(Pos(0, 0), Pos(2, 2), Outside)

\* C16: on the 3 x 3 grid without walls, start (0,0) and end (2,2), bfs
\* returns the path (0,0), (1,0), (2,0), (2,1), (2,2).
C16_BfsOpenGridPath ==
  (Returned /\ alg = "bfs" /\ grid = OpenGrid)
    => /\ success
       /\ path = << Pos(0, 0), Pos(1, 0), Pos(2, 0), Pos(2, 1), Pos(2, 2) >>

\* bfs has returned on the open 3 x 3 grid after visiting all nine cells
C16_Witness ==
  /\ Returned /\ alg = "bfs" /\ grid = OpenGrid
  /\ Len(visitedPositions) = 9

\* the grid has a start and an end cell and every in-bounds cell next to
\* the start cell is a wall
StartEnclosed(g) ==
  /\ HasKind(g, "start") /\ HasKind(g, "end")
  /\ \A c \in Cells : Adjacent(c, TheCell(g, "start")) => g[c] = "wall"

\* C17: when every in-bounds neighbor of start is a wall (end being
\* elsewhere), each of the five strategies returns success = false, an
\* empty path and a visited trace that holds start and nothing else.
C17_EnclosedStart ==
  /\ (pc = "call" /\ StartEnclosed(grid))
       => Run(alg, grid, State, MaxSteps).pc = "done"
  /\ (Returned /\ StartEnclosed(grid))
       => /\ success = FALSE
          /\ path = <<>>
          /\ visitedPositions = << TheCell(grid, "start") >>

\* greedyBestFirst has returned on a grid whose start cell, not in a
\* corner, is walled in
C17_Witness ==
  /\ Returned /\ alg = "greedyBestFirst" /\ StartEnclosed(grid)
  /\ Cardinality(Walls(grid)) >= 3
  /\ visitedPositions = << TheCell(grid, "start") >>

\* the strategies whose trace records end
Recording == {"bfs", "dfs", "dijkstra"}

\* s is the beginning of t
IsPrefix(s, t) == Len(s) <= Len(t) /\ SubSeq(t, 1, Len(s)) = s

\* nothing is left in the frontier: the queue of bfs, the stack of dfs,
\* the unvisited cells of finite distance of dijkstra
FrontierEmpty ==
  IF alg = "bfs" THEN queue = <<>>
  ELSE IF alg = "dfs" THEN stack = <<>>
  ELSE \A c \in Cells : Key(c) \in visited \/ distances[Key(c)] >= Infinity

\* this step removes x from the frontier: it dequeues x (bfs), pops x
\* (dfs) or selects x and marks it visited (dijkstra)
LeavesFrontier(x) ==
  IF alg = "bfs"
    THEN queue # <<>> /\ x = Head(queue) /\ IsPrefix(Tail(queue), queue')
  ELSE IF alg = "dfs"
    THEN /\ stack # <<>>
         /\ x = stack[Len(stack)]
         /\ IsPrefix(SubSeq(stack, 1, Len(stack) - 1), stack')
  ELSE /\ Key(x) \notin visited
       /\ distances[Key(x)] < Infinity
       /\ visited' = visited \cup {Key(x)}

\* the visited trace of a successful return starts with start, ends with
\* end and holds end nowhere earlier
EndsTrace ==
  (Returned /\ success /\ alg \in Recording)
    => /\ Len(visitedPositions) >= 1
       /\ visitedPositions[1] = TheCell(grid, "start")
       /\ visitedPositions[Len(visitedPositions)] = TheCell(grid, "end")
       /\ \A i \in 1 .. Len(visitedPositions) - 1 :
            visitedPositions[i] # TheCell(grid, "end")

\* a step of bfs, dfs or dijkstra appends to visited exactly when it
\* removes a position from the frontier, and it leaves the loop, with
\* nothing expanded, exactly when that position is end
RecordsRemoval ==
  alg \in Recording =>
    /\ pc # "loop" => visitedPositions' = visitedPositions
    /\ pc = "loop" =>
         \/ /\ FrontierEmpty
            /\ pc' = "done"
            /\ visitedPositions' = visitedPositions
         \/ \E x \in Cells :
              /\ LeavesFrontier(x)
              /\ visitedPositions' = Append(visitedPositions, x)
              /\ IF x = end
                   THEN pc' = "recon" /\ parent' = parent
                   ELSE pc' = "loop"
    /\ EndsTrace'

\* C19: for bfs, dfs and dijkstra a position is appended to visited in the
\* step that removes it from the frontier (and in no other step), and the
\* loop is left in the step that removes end; on success the first element
\* of visited is start, the last is end and end occurs nowhere earlier.
C19_VisitedOnRemoval == [][RecordsRemoval]_vars

\* dfs has returned a path after also visiting cells that are not on it
C19_Witness ==
  /\ Returned /\ success /\ alg = "dfs"
  /\ Len(visitedPositions) > Len(path)
  /\ visitedPositions[Len(visitedPositions)] = end

\* C20: in aStar every position selected as current, end included, is
\* appended to visited when it is selected; so when aStar returns
\* success = true the last element of visited is end.
C20_AStarVisitedEndsAtEnd ==
  (Returned /\ alg = "aStar" /\ success)
    => /\ Len(visitedPositions) >= 1
       /\ visitedPositions[Len(visitedPositions)] = end

\* a step of greedyBestFirst keeps every recorded parent as it is
KeepsCameFrom ==
  alg = "greedyBestFirst" =>
    \A k \in DOMAIN cameFrom :
      k \in DOMAIN cameFrom' /\ cameFrom'[k] = cameFrom[k]

\* C21: greedyBestFirst never changes the recorded parent of a position
\* once it is set: the position that first discovered a cell stays its
\* parent for the rest of the run.
C21_GreedyParentKept == [][KeepsCameFrom]_vars

\* the recorded parent of c: the entry of parent (of cameFrom in
\* greedyBestFirst); Null when there is none
ParentOf(c) ==
  IF alg = "greedyBestFirst"
    THEN IF DashKey(c) \in DOMAIN cameFrom THEN cameFrom[DashKey(c)] ELSE Null
    ELSE IF Key(c) \in DOMAIN parent THEN parent[Key(c)] ELSE Null

RECURSIVE ClimbsToStart(_, _)
\* following recorded parents from c reaches start within n steps
ClimbsToStart(c, n) ==
  IF c = start THEN TRUE
  ELSE IF n = 0 \/ c = Null THEN FALSE
  ELSE ClimbsToStart(ParentOf(c), n - 1)

\* C22: in every reachable state of every strategy the parent map is a
\* tree rooted at start: following parents from any position that has a
\* parent entry reaches start, never meets a missing entry and never
\* cycles.
C22_ParentTree ==
  \A c \in Cells : ParentOf(c) # Null => ClimbsToStart(c, Rows * Cols)

\* C23: the greedyBestFirst with the array open set and the
\* greedyBestFirst with the Set open set return the same path, the same
\* visited trace and the same success flag on every grid.
C23_GreedyVariantsAgree ==
  (Returned /\ alg = "greedyBestFirst")
    => LET r == greedyBestFirst2(grid)
       IN  /\ r.pc = "done"
           /\ r.path = path
           /\ r.visitedPositions = visitedPositions
           /\ r.success = success

\* position q stands before position p in the visited trace
VisitedBefore(q, p) ==
  \E i, j \in 1 .. Len(visitedPositions) :
    i < j /\ visitedPositions[i] = q /\ visitedPositions[j] = p

\* an iteration of aStar raises no g-score, gives an open position a new
\* parent only together with a strictly smaller g-score, and leaves the
\* parent and the f-score of an open position whose g-score stays
KeepsBestG ==
  (alg = "aStar" /\ pc = "loop") =>
    \A k \in DOMAIN gScore :
      /\ gScore'[k] <= gScore[k]
      /\ (SeqHas(openSet, k) /\ k \in DOMAIN parent /\ parent'[k] # parent[k])
           => gScore'[k] < gScore[k]
      /\ (SeqHas(openSet, k) /\ gScore'[k] = gScore[k])
           => /\ fScore'[k] = fScore[k]
              /\ k \in DOMAIN parent => parent'[k] = parent[k]
              /\ k \notin DOMAIN parent => k \notin DOMAIN parent'

\* C24: in aStar the recorded g-score of a position never increases, and
\* the parent of a position that is already in the open set is replaced
\* only when the tentative g-score is strictly smaller than the recorded
\* one; on an equal g-score the earlier parent, g and f are kept.
C24_AStarStrictImprovement == [][KeepsBestG]_vars

\* aStar has expanded a second neighbor q of an open position c that
\* offers the same g-score as the recorded one, and c still has the parent
\* that discovered it first
C24_Witness ==
  /\ alg = "aStar" /\ pc = "loop"
  /\ \E c, q \in Cells :
       /\ SeqHas(openSet, Key(c))
       /\ Key(c) \in DOMAIN parent
       /\ q # parent[Key(c)]
       /\ Adjacent(q, c)
       /\ VisitedBefore(parent[Key(c)], q)
       /\ gScore[Key(q)] + 1 = gScore[Key(c)]

Costed == {"dijkstra", "aStar"}

\* the recorded cost of position x: its distances entry in dijkstra, its
\* gScore entry in aStar
RecordedCost(x) ==
  IF alg = "dijkstra" THEN distances[Key(x)] ELSE gScore[Key(x)]

\* the recorded cost of position x after the step
RecordedCostAfter(x) ==
  IF alg = "dijkstra" THEN distances'[Key(x)] ELSE gScore'[Key(x)]

\* the position a step of dijkstra or aStar appends to visited has, before
\* and after the step, a recorded cost equal to the minimum number of steps
\* from start to it
AppendsTrueCost ==
  (alg \in Costed /\ pc = "loop" /\ visitedPositions' # visitedPositions)
    => LET x == visitedPositions'[Len(visitedPositions')]
       IN  /\ RecordedCost(x) = MinSteps(grid, start, x)
           /\ RecordedCostAfter(x) = MinSteps(grid, start, x)

\* C25: in dijkstra and aStar, at the moment a position is appended to
\* visited its recorded cost (distances entry in dijkstra, gScore entry in
\* aStar) equals the true minimum number of steps from start to that
\* position through non-wall cells.
C25_VisitedCostIsMinimal == [][AppendsTrueCost]_vars

\* aStar has just appended a position that walls put farther from start
\* than its Manhattan distance
C25_Witness ==
  /\ alg = "aStar" /\ pc = "loop" /\ Len(visitedPositions) >= 2
  /\ LET x == visitedPositions[Len(visitedPositions)]
     IN  /\ gScore[Key(x)] > heuristic(start, x)
         /\ gScore[Key(x)] = MinSteps(grid, start, x)

LevelOrdered == {"bfs", "dijkstra"}

\* C26: in bfs and dijkstra positions are expanded in level order: along
\* the visited trace the shortest-path distance from start never
\* decreases.
C26_LevelOrder ==
  (alg \in LevelOrdered /\ Len(visitedPositions) >= 2)
    => \A i \in 1 .. Len(visitedPositions) - 1 :
         MinSteps(grid, start, visitedPositions[i])
           <= MinSteps(grid, start, visitedPositions[i + 1])

\* dijkstra has returned a trace that holds two positions of one level and
\* reaches the fourth level
C26_Witness ==
  /\ Returned /\ alg = "dijkstra" /\ Len(visitedPositions) >= 5
  /\ MinSteps(grid, start, visitedPositions[2])
       = MinSteps(grid, start, visitedPositions[3])
  /\ MinSteps(grid, start, visitedPositions[Len(visitedPositions)]) >= 4

RECURSIVE Flood(_, _, _)
\* the cells reached from the cells in wave, wave after wave, through
\* non-wall cells; seen holds the cells reached so far
Flood(g, wave, seen) ==
  IF wave = {} THEN seen
  ELSE LET nxt == {c \in Cells \ (seen \cup Walls(g)) :
                     \E w \in wave : Adjacent(c, w)}
       IN  Flood(g, nxt, seen \cup nxt)

\* the non-wall cells reachable from s, s included
ReachableFrom(g, s) == Flood(g, {s}, {s})

Exhaustive == {"bfs", "dfs", "dijkstra", "aStar"}

\* C27: when end is not reachable from start, the positions in the visited
\* trace returned by bfs, dfs, dijkstra and aStar are exactly the non-wall
\* cells reachable from start, start included.
C27_UnreachableVisitsAll ==
  (Returned /\ alg \in Exhaustive /\ EndCutOff(grid))
    => Range(visitedPositions) = ReachableFrom(grid, TheCell(grid, "start"))

\* aStar has returned without a path after visiting four or more cells,
\* and an empty cell on the far side of the walls is not in its trace
C27_Witness ==
  /\ Returned /\ alg = "aStar" /\ EndCutOff(grid)
  /\ Len(visitedPositions) >= 4
  /\ \E c \in Cells : grid[c] = "empty" /\ c \notin Range(visitedPositions)

MarkOnPush == {"bfs", "dfs"}

\* the queue of bfs, the stack of dfs
Frontier == IF alg = "bfs" THEN queue ELSE stack

\* a step of bfs or dfs pushes only positions not yet marked seen, marks
\* each position it pushes, unmarks none and leaves a frontier without a
\* repeated position
PushesUnseenOnly ==
  alg \in MarkOnPush =>
    /\ visited \subseteq visited'
    /\ NoRepeat(Frontier')
    /\ \A i \in 1 .. Len(Frontier') :
         ~SeqHas(Frontier, Frontier'[i])
           => /\ Key(Frontier'[i]) \notin visited
              /\ Key(Frontier'[i]) \in visited'

\* C28: in bfs and dfs a position is marked seen when it is pushed, so
\* every position is pushed at most once and the frontier (queue or stack)
\* never holds the same position twice.
C28_PushedOnce == [][PushesUnseenOnly]_vars

\* dfs holds in its stack a position next to two positions it has already
\* expanded: the second of them found it marked and did not push it again
C28_Witness ==
  /\ alg = "dfs" /\ pc = "loop"
  /\ \E i \in 1 .. Len(stack) :
       \E p, q \in Range(visitedPositions) :
         p # q /\ Adjacent(p, stack[i]) /\ Adjacent(q, stack[i])

\* a comes before b, or is b, in the order lowest row first and, within a
\* row, lowest column first
RowColumnOrder(a, b) == a.row < b.row \/ (a.row = b.row /\ a.col <= b.col)

\* c is an unvisited cell of finite distance of dijkstra
Candidate(c) == Key(c) \notin visited /\ distances[Key(c)] < Infinity

\* a round of dijkstra selects, when there is a candidate, the candidate of
\* least distance that comes first in row and column order, and appends it
\* to visited
SelectsLeastDistance ==
  (alg = "dijkstra" /\ pc = "loop" /\ \E c \in Cells : Candidate(c))
    => /\ Len(visitedPositions') = Len(visitedPositions) + 1
       /\ LET x == visitedPositions'[Len(visitedPositions')]
          IN  /\ Candidate(x)
              /\ \A c \in Cells :
                   Candidate(c) => distances[Key(x)] <= distances[Key(c)]
              /\ \A c \in Cells :
                   (Candidate(c) /\ distances[Key(c)] = distances[Key(x)])
                     => RowColumnOrder(x, c)

\* C29: at every round dijkstra selects an unvisited cell of minimum
\* finite distance, and among several unvisited cells with that minimum
\* distance the one with the lowest row and, within that row, the lowest
\* column.
C29_DijkstraSelection == [][SelectsLeastDistance]_vars

\* dijkstra has just selected one of two or more cells of least distance:
\* another cell of the same distance is still unvisited
C29_Witness ==
  /\ alg = "dijkstra" /\ pc = "loop" /\ Len(visitedPositions) >= 2
  /\ LET x == visitedPositions[Len(visitedPositions)]
     IN  \E c \in Cells :
           /\ Candidate(c)
           /\ distances[Key(c)] = distances[Key(x)]
           /\ c.row = x.row
           /\ c.col > x.col

\* this round of greedyBestFirst takes the i-th open position: what is
\* left of openSet is openSet without its i-th element, and the element is
\* appended to the visited trace
GreedyTakes(i) ==
  /\ IsPrefix(Splice(openSet, i), openSet')
  /\ Len(visitedPositions) < MaxTrace
       => visitedPositions' = Append(visitedPositions, openSet[i])

\* the i-th open position has the least Manhattan distance to end of all
\* open positions
LeastH(i) ==
  \A j \in 1 .. Len(openSet) :
    heuristic(openSet[i], end) <= heuristic(openSet[j], end)

\* a round of greedyBestFirst takes an open position of least distance to
\* end that no other open position of that distance precedes in row and
\* column order
SelectsLeastHByRowColumn ==
  (alg = "greedyBestFirst" /\ pc = "loop" /\ openSet # <<>>)
    => \E i \in 1 .. Len(openSet) :
         /\ GreedyTakes(i)
         /\ LeastH(i)
         /\ \A j \in 1 .. Len(openSet) :
              heuristic(openSet[j], end) = heuristic(openSet[i], end)
                => RowColumnOrder(openSet[i], openSet[j])

\* C30 as stated: at every round greedyBestFirst selects an open position
\* with minimum Manhattan distance to end, and among several open
\* positions with that minimum the one with the lowest row and, within
\* that row, the lowest column.
C30_GreedySelection == [][SelectsLeastHByRowColumn]_vars

\* a round of greedyBestFirst takes the open position of least distance
\* to end that stands first in openSet
SelectsLeastHByArrival ==
  (alg = "greedyBestFirst" /\ pc = "loop" /\ openSet # <<>>)
    => \E i \in 1 .. Len(openSet) :
         /\ GreedyTakes(i)
         /\ LeastH(i)
         /\ \A j \in 1 .. i - 1 :
              heuristic(openSet[j], end) > heuristic(openSet[i], end)

\* C30 as amended: at every round greedyBestFirst selects an open position
\* with minimum Manhattan distance to end, and among several open
\* positions with that minimum the one that stands first in the open
\* array, that is the one pushed earliest.
C30_GreedySelectionByArrival == [][SelectsLeastHByArrival]_vars

\* greedyBestFirst has just selected a position while an open position of
\* the same distance to end and of lower row or column stayed open
C30_Witness ==
  /\ alg = "greedyBestFirst" /\ pc = "loop" /\ Len(visitedPositions) >= 2
  /\ LET x == visitedPositions[Len(visitedPositions)]
     IN  \E j \in 1 .. Len(openSet) :
           /\ openSet[j] # x
           /\ heuristic(openSet[j], end) = heuristic(x, end)
           /\ RowColumnOrder(openSet[j], x)

\* this round of aStar takes the i-th open key: when it is the key of end
\* the loop is left, otherwise the key leaves openSet, the other keys keep
\* their order and the position is appended to the visited trace
AStarTakes(i) ==
  IF ParseKey(openSet[i]) = end
    THEN pc' = "recon"
    ELSE /\ pc' = "loop"
         /\ IsPrefix(Splice(openSet, i), openSet')
         /\ visitedPositions' = Append(visitedPositions, ParseKey(openSet[i]))

\* a round of aStar takes the open key of least fScore that stands first
\* in the insertion order of openSet
SelectsLeastFByInsertion ==
  (alg = "aStar" /\ pc = "loop" /\ openSet # <<>>)
    => \E i \in 1 .. Len(openSet) :
         /\ AStarTakes(i)
         /\ \A j \in 1 .. Len(openSet) :
              fScore[openSet[i]] <= fScore[openSet[j]]
         /\ \A j \in 1 .. i - 1 : fScore[openSet[j]] > fScore[openSet[i]]

\* C31: at every round aStar selects an open position with minimum
\* f-score, and among several open positions with that minimum the one
\* that was inserted into the open set earliest.
C31_AStarSelection == [][SelectsLeastFByInsertion]_vars

\* aStar has just selected a position while another position, open before
\* that round (it is no neighbor of the selected one), has the same f-score
C31_Witness ==
  /\ alg = "aStar" /\ pc = "loop" /\ Len(visitedPositions) >= 2
  /\ LET x == visitedPositions[Len(visitedPositions)]
     IN  \E j \in 1 .. Len(openSet) :
           /\ ~Adjacent(ParseKey(openSet[j]), x)
           /\ fScore[openSet[j]] = fScore[Key(x)]

\* the cells above, below, left and right of x, in that order, that are in
\* the grid, are no wall and are not yet marked seen
NewNeighbors(x) ==
  SelectSeq(<< Pos(x.row - 1, x.col), Pos(x.row + 1, x.col),
               Pos(x.row, x.col - 1), Pos(x.row, x.col + 1) >>,
            LAMBDA n : /\ n \in Cells
                       /\ grid[n] # "wall"
                       /\ Key(n) \notin visited)

\* a round of dfs expands the position on top of the stack and, unless it
\* is end, puts the new neighbors of that position on top in the order up,
\* down, left, right: the last one pushed is the one expanded next
ExpandsNewestPush ==
  (alg = "dfs" /\ pc = "loop" /\ stack # <<>>)
    => LET x == stack[Len(stack)]
       IN  /\ visitedPositions' = Append(visitedPositions, x)
           /\ x # end
                => stack' = SubSeq(stack, 1, Len(stack) - 1) \o NewNeighbors(x)

\* C32: dfs always expands the most recently pushed position next: after
\* expanding a position that pushed new neighbors, the next position
\* appended to visited is the last one pushed, so among new neighbors right
\* is expanded before left, left before down, and down before up.
C32_DfsNewestFirst == [][ExpandsNewestPush]_vars

\* dfs has expanded a position that pushed two or more new neighbors and
\* then the last of them pushed; an earlier one still waits on the stack
C32_Witness ==
  /\ alg = "dfs" /\ pc = "loop" /\ Len(visitedPositions) >= 2
  /\ LET x == visitedPositions[Len(visitedPositions) - 1]
         y == visitedPositions[Len(visitedPositions)]
     IN  /\ Key(y) \in DOMAIN parent
         /\ parent[Key(y)] = x
         /\ \E i \in 1 .. Len(stack) :
              /\ Key(stack[i]) \in DOMAIN parent
              /\ parent[Key(stack[i])] = x

\* the place of neighbor n of p in the order up, down, left, right
DirectionRank(p, n) ==
  IF n.row = p.row - 1 THEN 1
  ELSE IF n.row = p.row + 1 THEN 2
  ELSE IF n.col = p.col - 1 THEN 3
  ELSE 4

\* the positions whose neighbors are compared: every position of the grid
\* a strategy is called on and, while the strategy runs, the position it
\* has just expanded
Probed ==
  IF pc = "call" THEN Cells
  ELSE IF pc = "loop" /\ visitedPositions # <<>>
    THEN {visitedPositions[Len(visitedPositions)]}
  ELSE {}

\* C33: for every in-bounds position getNeighbors returns exactly those of
\* its four neighbors that lie inside the grid and are not wall cells, in
\* the order up, down, left, right, with no other position and no
\* duplicate.
C33_GetNeighbors ==
  \A p \in Probed :
    LET ns == getNeighbors(grid, p)
    IN  /\ Range(ns) = {c \in Cells : Adjacent(c, p) /\ grid[c] # "wall"}
        /\ NoRepeat(ns)
        /\ \A i, j \in 1 .. Len(ns) :
             i < j => DirectionRank(p, ns[i]) < DirectionRank(p, ns[j])

\* bfs has expanded a start cell that has a neighbor outside the grid, a
\* wall neighbor and two passable neighbors, which now form the queue
C33_Witness ==
  /\ alg = "bfs" /\ pc = "loop" /\ Len(visitedPositions) = 1
  /\ Cardinality({c \in Cells : Adjacent(c, start)}) = 3
  /\ \E c \in Cells : Adjacent(c, start) /\ grid[c] = "wall"
  /\ Len(queue) = 2
  /\ queue = getNeighbors(grid, start)

\* the last cell of kind k in row-major order; Null when there is none
LastOfKind(g, k) ==
  IF HasKind(g, k)
    THEN CHOOSE c \in Cells :
           g[c] = k /\ \A d \in Cells : g[d] = k => RowColumnOrder(d, c)
    ELSE Null

\* what the start / end scan of the running strategy finds in the grid
Scanned ==
  IF alg = "greedyBestFirst"
    THEN greedyScan(grid, 1, [start |-> Null, end |-> Null])
    ELSE findStartAndEnd(grid)

\* C34: when a grid holds several start cells or several end cells, every
\* strategy searches from the last start cell and to the last end cell in
\* row-major order; start or end is null only when the grid has no cell of
\* that kind.
C34_LastMarkWins ==
  /\ Scanned.start = LastOfKind(grid, "start")
  /\ Scanned.end = LastOfKind(grid, "end")
  /\ (pc # "call" /\ HasKind(grid, "start") /\ HasKind(grid, "end"))
       => /\ start = LastOfKind(grid, "start")
          /\ end = LastOfKind(grid, "end")
          /\ visitedPositions # <<>> => visitedPositions[1] = start
          /\ (Returned /\ success)
               => path[1] = start /\ path[Len(path)] = end

\* a strategy has returned a path on a grid with two start cells and two
\* end cells
C34_Witness ==
  /\ Returned /\ success
  /\ Cardinality({c \in Cells : grid[c] = "start"}) = 2
  /\ Cardinality({c \in Cells : grid[c] = "end"}) = 2
  /\ path[1] = LastOfKind(grid, "start")
  /\ path[Len(path)] = LastOfKind(grid, "end")

\* the number of cells of kind k
CountKind(g, k) == Cardinality({c \in Cells : g[c] = k})

\* C35: starting from an all-empty grid, after any sequence of cell
\* clicks, drags, clearPath and clearGrid actions (and of runs shown in
\* between) the grid holds at most one start cell and at most one end cell.
C35_OneStartOneEnd ==
  CountKind(grid, "start") <= 1 /\ CountKind(grid, "end") <= 1

\* a drag is under way, after the last event counted, on a grid that holds
\* a start cell, an end cell and a wall
C35_Witness ==
  /\ isDrawing /\ events = MaxEvents
  /\ CountKind(grid, "start") = 1
  /\ CountKind(grid, "end") = 1
  /\ CountKind(grid, "wall") = 1

\* a run was stopped: isRunning is cleared while a visualizeAlgorithm call
\* that was started has not finished
Stopped == ~isRunning /\ pending # <<>>

\* the step is a write of an unfinished visualizeAlgorithm call
AnimationMoves == pending' # pending /\ Len(pending') <= Len(pending)

\* some cell becomes visited or path in the step
TurnsCell ==
  \E c \in Cells : grid'[c] # grid[c] /\ grid'[c] \in {"visited", "path"}

StopHalts == Stopped /\ AnimationMoves => ~TurnsCell

\* C36: pressing Space while a run is in progress stops it: after the stop
\* event the pending animation of that run changes no further cell to
\* visited or path.
C36_SpaceStops == [][StopHalts]_vars

\* C37: at most one run is in progress at any time: runAlgorithm never
\* starts a new search and animation while an earlier animation still has
\* steps pending.
C37_OneRunAtATime == Len(pending) <= 1

WritesOverShown ==
  AnimationMoves =>
    \A c \in Cells :
      grid'[c] # grid[c] =>
        /\ grid[c] \in {"empty", "visited", "path"}
        /\ grid'[c] \in {"visited", "path"}

\* C38: an animation step never overwrites a cell that is start, end or
\* wall in the current grid at the moment of the write: it only turns
\* empty, visited or path cells into visited or path.
C38_AnimationKeepsMarks == [][WritesOverShown]_vars

====
